---- MODULE Spec2Model ----
(***************************************************************************)
(* pydigitize, scan.py: the import guards, the __main__ block, the Scan    *)
(* class (__init__, prepare_directories, scan_pages, combine_tiffs,        *)
(* convert_tiff_to_pdf, shrink_pdf, process) and the external tools it     *)
(* drives, as one state machine.                                           *)
(*                                                                         *)
(* Strings are sequences of one-character strings, so that int(), '%d',    *)
(* sorted() and glob() are computed character by character. Paths are      *)
(* sequences of components; an absolute path starts with the component "/".*)
(***************************************************************************)
EXTENDS Integers, Sequences, FiniteSets, TLC

VARIABLES
    pc,           \* position in the program
    absent,       \* external tools that `from sh import ...` cannot find
    START_TIME,   \* the module global START_TIME, Unbound or a date
    globalNames,  \* other names bound in the module's global namespace
    exitCode,     \* process exit status, Running while it runs
    raised,       \* what ended the run: "" / "SystemExit" / an exception name
    reported,     \* tools named by the printed import error
    message,      \* last error message printed by the program
    dirs,         \* directories that exist on the file system
    tmpdirs,      \* directories created by tempfile.mkdtemp, in order
    args,         \* the docopt dictionary of the __main__ block
    kwargs,       \* the keyword arguments built by the __main__ block
    no_shrink,    \* local of the __main__ block / argument of process
    self,         \* attributes of the Scan object
    i,            \* loop variable of scan_pages
    cwd,          \* current working directory (changed by cd)
    workfiles,    \* files in the working directory: name -> pages
    delivered,    \* files outside the working directory: path -> pages
    calls,        \* external tool invocations so far, in order
    steps,        \* steps of process that have started, in order
    done          \* steps of process that have returned, in order

vars == << pc, absent, START_TIME, globalNames, exitCode, raised, reported,
           message, dirs, tmpdirs, args, kwargs, no_shrink, self, i, cwd,
           workfiles, delivered, calls, steps, done >>

\* ------------------------------------------------------------------ bounds

\* largest page count given with -c
MaxCount == 11

\* most sheets the feeder delivers to one batch invocation
MaxBatchPages == 3

\* most single-page invocations of one run that find the feeder empty
MaxNoDocs == 1

\* ----------------------------------------------------------------- strings

None == "None"

Digits == << "0", "1", "2", "3", "4", "5", "6", "7", "8", "9" >>

\* characters in code point order, as far as the program's strings use them
CharOrder ==
    << " ", "-", ".", "/", "0", "1", "2", "3", "4", "5", "6", "7", "8", "9",
       "A", "D", "F", "Z", "a", "b", "c", "d", "e", "f", "g", "i", "l", "m",
       "o", "p", "r", "s", "t", "u" >>

Ord(c) == CHOOSE k \in 1..Len(CharOrder) : CharOrder[k] = c

IsDigit(c) == \E k \in 1..Len(Digits) : Digits[k] = c

DigitValue(c) == (CHOOSE k \in 1..Len(Digits) : Digits[k] = c) - 1

Range(s) == { s[k] : k \in 1..Len(s) }

RECURSIVE DigitsValue(_)
DigitsValue(s) ==
    IF s = << >> THEN 0
    ELSE DigitsValue(SubSeq(s, 1, Len(s) - 1)) * 10 + DigitValue(s[Len(s)])

\* int(s) for a str: an optional sign and at least one digit, else ValueError
ParseInt(s) ==
    LET signed == Len(s) >= 1 /\ s[1] \in {"-", "+"}
        body   == IF signed THEN Tail(s) ELSE s
    IN  IF body # << >> /\ \A k \in 1..Len(body) : IsDigit(body[k])
        THEN [ok |-> TRUE,
              val |-> IF signed /\ s[1] = "-" THEN 0 - DigitsValue(body)
                      ELSE DigitsValue(body)]
        ELSE [ok |-> FALSE, val |-> 0]

\* '%d' of a non-negative integer
RECURSIVE FormatInt(_)
FormatInt(n) ==
    IF n < 10 THEN << Digits[n + 1] >>
    ELSE FormatInt(n \div 10) \o << Digits[(n % 10) + 1] >>

\* a < b for str: the first differing character decides, a proper prefix is
\* smaller
RECURSIVE StrLess(_, _)
StrLess(a, b) ==
    IF b = << >> THEN FALSE
    ELSE IF a = << >> THEN TRUE
    ELSE IF a[1] # b[1] THEN Ord(a[1]) < Ord(b[1])
    ELSE StrLess(Tail(a), Tail(b))

\* sorted(names): ascending by StrLess
RECURSIVE Sorted(_)
Sorted(S) ==
    IF S = {} THEN << >>
    ELSE LET m == CHOOSE x \in S : \A y \in S \ {x} : StrLess(x, y)
         IN  << m >> \o Sorted(S \ {m})

StartsWith(s, p) == Len(s) >= Len(p) /\ SubSeq(s, 1, Len(p)) = p

EndsWith(s, p) ==
    Len(s) >= Len(p) /\ SubSeq(s, Len(s) - Len(p) + 1, Len(s)) = p

Put(f, k, v) == [x \in DOMAIN f \cup {k} |-> IF x = k THEN v ELSE f[x]]

Remove(f, k) == [x \in DOMAIN f \ {k} |-> f[x]]

\* ------------------------------------------------------------ environment

Tools == {"scanimage", "tiffcp", "tiff2pdf", "gs"}

\* exit status while the process runs
Running == 0 - 1

\* optional values: << >> is None, << v >> is v
NoValue == << >>

Some(v) == << v >>

\* START_TIME when nothing has bound it: scan.py reads the global and never
\* assigns it, so it is bound only if the namespace the script is run in
\* (runpy.run_path init_globals, an importing caller) already holds it
Unbound == NoValue

StartTimes == { Some([year |-> 2024, month |-> 1, day |-> 1]) }

Home == << "/", "home" >>

\* directories that exist before the program starts
ExistingDirs == { << "/" >>, Home, Home \o << "out" >>, << "/", "tmp" >> }

IsAbsolute(p) == p # << >> /\ p[1] = "/"

\* os.path.abspath
Abspath(p, wd) == IF IsAbsolute(p) THEN p ELSE wd \o p

\* os.path.dirname; << >> stands for ''
Dirname(p) == IF p = << >> THEN << >> ELSE SubSeq(p, 1, Len(p) - 1)

\* os.path.isdir
Isdir(p, wd, ds) == p # << >> /\ Abspath(p, wd) \in ds

\* os.path.join(a, b) for a relative b
Join(p, name) == Append(p, name)

\* tempfile.mkdtemp(prefix='pydigitize-', suffix=...): a fresh directory
Mkdtemp(suffix, made) ==
    << "/", "tmp",
       IF suffix = "-out" THEN "pydigitize-a-out"
       ELSE IF Len(made) = 0 THEN "pydigitize-a" ELSE "pydigitize-b" >>

EmptyDir == [x \in {} |-> << >>]

\* ------------------------------------------------------ command line input

DefaultCountText ==
    << "a", "l", "l", " ", "p", "a", "g", "e", "s", " ", "f", "r", "o", "m",
       " ", "A", "D", "F" >>

DefaultResolutionText == << "3", "0", "0" >>

ResolutionArgs ==
    { DefaultResolutionText, << "1", "0", "0" >>, << "6", "0", "0" >>,
      << "1", "5", "0" >>, << "2", "5", "0" >>, << "a", "b", "c" >> }

DeviceArgs == { None, "epson" }

OutputArgs ==
    { << >>, << "out" >>, << "out", "doc.pdf" >>, << "doc.pdf" >>,
      << "missing", "doc.pdf" >> }

NameArgs == { None, "doc" }

CountArgs ==
    { DefaultCountText, << "0" >>, << "-", "3" >>, << "a", "b", "c" >> }
    \cup { FormatInt(n) : n \in 1..MaxCount }

\* the values before the __main__ block has parsed the command line
NoArgs ==
    [parsed |-> FALSE, r |-> << >>, d |-> None, OUTPUT |-> << >>, n |-> None,
     c |-> << >>, noshrink |-> FALSE, nowait |-> FALSE]

NoKwargs ==
    [built |-> FALSE, resolution |-> << >>, device |-> None, output |-> << >>,
     name |-> None, count |-> NoValue, nowait |-> FALSE]

\* the Scan object before __init__ has stored anything
NoSelf ==
    [constructed |-> FALSE, resolution |-> << >>, device |-> None,
     output_path |-> << >>, count |-> NoValue, nowait |-> FALSE,
     workdir |-> << >>]

\* ------------------------------------------------------------------ names

VALID_RESOLUTIONS == {100, 200, 300, 400, 600}

ImportedNames ==
    {"datetime", "glob", "logging", "os", "re", "sys", "tempfile", "docopt",
     "cd", "mv"}

ModuleNames ==
    Tools \cup {"logger", "VALID_RESOLUTIONS", "prefix", "Scan"}

MainNames == {"args", "default_output", "kwargs", "no_shrink"}

InitLocals ==
    {"self", "resolution", "device", "output", "name", "datestring", "count",
     "nowait", "_invalid_res", "Timestamp", "filename", "output_path"}

ShrinkLocals == {"self", "gs_args"}

\* Python's name lookup: the function's locals, then the module globals
Resolves(name, locals, globals, startTime) ==
    \/ name \in locals
    \/ name \in globals
    \/ name = "START_TIME" /\ startTime # Unbound

\* prefix() reads the global START_TIME
PrefixRaises(globals, startTime) ==
    ~ Resolves("START_TIME", {"duration"}, globals, startTime)

Pad(s, width) ==
    [k \in 1..(IF Len(s) < width THEN width ELSE Len(s)) |->
        IF k <= width - Len(s) THEN "0"
        ELSE s[k - (IF Len(s) < width THEN width - Len(s) ELSE 0)]]

\* START_TIME.strftime('%Y%m%d') + 'Z'
Timestamp(t) ==
    Pad(FormatInt(t.year), 4) \o Pad(FormatInt(t.month), 2)
        \o Pad(FormatInt(t.day), 2) \o << "Z" >>


\* ------------------------------------------------------------ file names

OutputTif == << "o", "u", "t", "p", "u", "t", ".", "t", "i", "f" >>

OutputPdf == << "o", "u", "t", "p", "u", "t", ".", "p", "d", "f" >>

CleanPdf == << "c", "l", "e", "a", "n", ".", "p", "d", "f" >>

\* scanimage --batch=out%d.tif: the file of page number n
PageFileName(n) == << "o", "u", "t" >> \o FormatInt(n) \o << ".", "t", "i", "f" >>

\* glob.glob('out*.tif') in the working directory
Glob(files) ==
    { f \in DOMAIN files :
        /\ Len(f) >= 7
        /\ StartsWith(f, << "o", "u", "t" >>)
        /\ EndsWith(f, << ".", "t", "i", "f" >>) }

RECURSIVE Concat(_, _)
Concat(names, files) ==
    IF names = << >> THEN << >>
    ELSE files[Head(names)] \o Concat(Tail(names), files)

\* ------------------------------------------------------------------ tools

\* sh's _ok_code for scanimage; every other command accepts 0 only
ScanimageOkCodes == {0, 7}

DefaultOkCodes == {0}

\* (variant) exit codes are never checked
ToolNeverRaises(code, okCodes) == FALSE

\* sh raises ErrorReturnCode when the exit code is not an accepted one
ToolRaises(code, okCodes) == code \notin okCodes

\* Python truth value of self.count (None and 0 are false)
Truthy(count) == count # NoValue /\ count[1] # 0

\* the keyword arguments _scan_page gives scanimage
ScanimageArgs(number, slf) ==
    [ x |-> 210, y |-> 297,
      batch |-> "out%d.tif",
      batch_start |-> IF number = NoValue THEN 1000 ELSE number[1],
      batch_count |-> IF number = NoValue THEN NoValue ELSE Some(1),
      format |-> "tiff",
      resolution |-> slf.resolution,
      ok_code |-> ScanimageOkCodes,
      device_name |-> IF slf.device # None THEN Some(slf.device) ELSE NoValue ]

\* the pages of the working directory's page files
PagesHeld(files) == Cardinality(Glob(files) \ {OutputTif})

\* scanimage writes the sheets it is fed as out<batch_start>.tif,
\* out<batch_start + 1>.tif, ...; a page is named by its acquisition number
RECURSIVE ScanimageWrites(_, _, _)
ScanimageWrites(a, sheets, files) ==
    IF sheets = 0 THEN files
    ELSE LET before == ScanimageWrites(a, sheets - 1, files)
         IN  Put(before, PageFileName(a.batch_start + sheets - 1),
                 << PagesHeld(before) + 1 >>)

\* what one scanimage run can do: (exit code, sheets scanned). With
\* --batch-count=1 it scans one sheet (0) or finds none to scan (7, out of
\* documents); without, it scans until the feeder is empty (7)
NoDocsSeen(log) ==
    Cardinality({ k \in 1..Len(log) :
                    log[k].tool = "scanimage" /\ log[k].code = 7 })

ScanimageOutcomes(a, log) ==
    IF a.batch_count # NoValue
    THEN { [code |-> 0, sheets |-> 1], [code |-> 1, sheets |-> 0] }
         \cup (IF NoDocsSeen(log) < MaxNoDocs
               THEN { [code |-> 7, sheets |-> 0] } ELSE {})
    ELSE { [code |-> c, sheets |-> k] : c \in {0, 7, 1}, k \in 0..MaxBatchPages }

\* tiffcp needs an input and an output file: with no input it prints its
\* usage and fails
TiffcpOutcomes(inputs) == IF inputs = << >> THEN {1} ELSE {0, 1}

ToolOutcomes == {0, 1}

\* the argument list shrink_pdf builds (and does not pass on)
GsArgs ==
    << "q", "dNOPAUSE", "dBATCH", "dSAFER", "sDEVICE=pdfwrite",
       "dCompatibilityLevel=1.3", "dPDFSETTINGS=/screen",
       "dEmbedAllFonts=true", "dSubsetFonts=true",
       "dColorImageDownsampleType=/Bicubic", "dColorImageResolution=185",
       "dGrayImageDownsampleType=/Bicubic", "dGrayImageResolution=185",
       "dMonoImageDownsampleType=/Bicubic", "dMonoImageResolution=185",
       "sOutputFile=output.pdf", "clean.pdf" >>

\* iterating the docopt dictionary gives its keys
DocoptKeys ==
    << "--debug", "--help", "--no-shrink", "--nowait", "--verbose",
       "--version", "-c", "-d", "-n", "-r", "OUTPUT" >>

\* gs writes the file a -sOutputFile= switch names, from the input file
GsOutputFile(argv) ==
    IF "-sOutputFile=clean.pdf" \in Range(argv) THEN Some(CleanPdf)
    ELSE IF "-sOutputFile=output.pdf" \in Range(argv) THEN Some(OutputPdf)
    ELSE NoValue

GsInputFile(argv) ==
    IF argv # << >> /\ argv[Len(argv)] = "output.pdf" THEN Some(OutputPdf)
    ELSE IF argv # << >> /\ argv[Len(argv)] = "clean.pdf" THEN Some(CleanPdf)
    ELSE NoValue

GsWrites(argv, files) ==
    LET out == GsOutputFile(argv)
        in  == GsInputFile(argv)
    IN  IF out # NoValue /\ in # NoValue /\ in[1] \in DOMAIN files
        THEN Put(files, out[1], files[in[1]])
        ELSE files


\* tiff2pdf reads output.tif: without it it fails
Tiff2pdfOutcomes(files) == IF OutputTif \in DOMAIN files THEN {0, 1} ELSE {1}

\* mv fails when its source does not exist
MvOutcomes(source, files) == IF source \in DOMAIN files THEN {0} ELSE {1}

\* -------------------------------------------------------- the program

Init ==
    /\ pc = "import"
    /\ absent \in SUBSET Tools
    /\ START_TIME \in {Unbound} \cup StartTimes
    /\ globalNames = ImportedNames
    /\ exitCode = Running
    /\ raised = ""
    /\ reported = {}
    /\ message = ""
    /\ dirs = ExistingDirs
    /\ tmpdirs = << >>
    /\ args = NoArgs
    /\ kwargs = NoKwargs
    /\ no_shrink = FALSE
    /\ self = NoSelf
    /\ i = 0
    /\ cwd = Home
    /\ workfiles = EmptyDir
    /\ delivered = EmptyDir
    /\ calls = << >>
    /\ steps = << >>
    /\ done = << >>

\* sys.exit(1), or an exception nothing catches: the process ends with 1
Exit(exception, text) ==
    /\ pc' = "exit"
    /\ exitCode' = 1
    /\ raised' = exception
    /\ message' = text

\* (variant) the guards in the opposite order, gs first
FirstMissingGsFirst(missing) ==
    IF "gs" \in missing THEN {"gs"}
    ELSE IF {"tiffcp", "tiff2pdf"} \cap missing # {} THEN {"tiffcp", "tiff2pdf"}
    ELSE IF "scanimage" \in missing THEN {"scanimage"}
    ELSE {}

\* the tools the first failing `from sh import ...` guard names
FirstMissing(missing) ==
    IF "scanimage" \in missing THEN {"scanimage"}
    ELSE IF {"tiffcp", "tiff2pdf"} \cap missing # {} THEN {"tiffcp", "tiff2pdf"}
    ELSE IF "gs" \in missing THEN {"gs"}
    ELSE {}

\* lines 45-61: the import guards
ImportGuards ==
    /\ pc = "import"
    /\ IF FirstMissing(absent) # {}
       THEN /\ reported' = FirstMissing(absent)
            /\ Exit("SystemExit", "Error: command not found")
            /\ UNCHANGED globalNames
       ELSE /\ pc' = "main"
            /\ globalNames' = globalNames \cup ModuleNames
            /\ UNCHANGED << reported, exitCode, raised, message >>
    /\ UNCHANGED << absent, START_TIME, dirs, tmpdirs, args, kwargs, no_shrink,
                    self, i, cwd, workfiles, delivered, calls, steps, done >>

\* kwargs['count'] as lines 276-284 set it: absent for the default text
CountKwarg(c) ==
    IF c = << >> \/ c = DefaultCountText \/ ~ ParseInt(c).ok THEN NoValue
    ELSE Some(ParseInt(c).val)

\* lines 249-289: the __main__ block up to the construction of the Scan
Main ==
    /\ pc = "main"
    /\ \E r \in ResolutionArgs, d \in DeviceArgs, o \in OutputArgs,
          n \in NameArgs, c \in CountArgs, ns \in BOOLEAN, nw \in BOOLEAN :
          LET default_output == Mkdtemp("-out", tmpdirs)
          IN  /\ args' = [parsed |-> TRUE, r |-> r, d |-> d, OUTPUT |-> o,
                          n |-> n, c |-> c, noshrink |-> ns, nowait |-> nw]
              /\ tmpdirs' = Append(tmpdirs, default_output)
              /\ dirs' = dirs \cup {default_output}
              /\ no_shrink' = ns
              /\ IF c # << >> /\ c # DefaultCountText /\ ~ ParseInt(c).ok
                 THEN /\ kwargs' =
                            [built |-> TRUE, resolution |-> r, device |-> d,
                             output |-> IF o # << >> THEN o ELSE default_output,
                             name |-> n, count |-> NoValue, nowait |-> FALSE]
                      /\ Exit("SystemExit", "Invalid argument to -c")
                 ELSE /\ kwargs' =
                            [built |-> TRUE, resolution |-> r, device |-> d,
                             output |-> IF o # << >> THEN o ELSE default_output,
                             name |-> n, count |-> CountKwarg(c), nowait |-> nw]
                      /\ pc' = "construct"
                      /\ UNCHANGED << exitCode, raised, message >>
    /\ globalNames' = globalNames \cup MainNames
    /\ UNCHANGED << absent, START_TIME, reported, self, i, cwd, workfiles,
                    delivered, calls, steps, done >>

\* lines 101-105: int(resolution) not in VALID_RESOLUTIONS, or ValueError
InvalidResolution(resolution) ==
    \/ ~ ParseInt(resolution).ok
    \/ ParseInt(resolution).val \notin VALID_RESOLUTIONS

\* lines 116-126: the output path, or why there is none
OutputPath(output, name, wd, ds, globals, startTime) ==
    IF Isdir(output, wd, ds)
    THEN IF name = None
         THEN IF Resolves("timestamp", InitLocals, globals, startTime)
              THEN [ok |-> TRUE, error |-> "",
                    path |-> Join(output, "<timestamp>.pdf")]
              ELSE [ok |-> FALSE, error |-> "NameError", path |-> << >>]
         ELSE [ok |-> TRUE, error |-> "", path |-> Join(output, name)]
    ELSE IF Dirname(output) = << >> \/ Isdir(Dirname(output), wd, ds)
         THEN [ok |-> TRUE, error |-> "", path |-> output]
         ELSE [ok |-> FALSE, error |-> "SystemExit", path |-> << >>]

\* lines 97-132: Scan.__init__
ScanInit ==
    /\ pc = "construct"
    /\ IF InvalidResolution(kwargs.resolution)
       THEN /\ Exit("SystemExit", "Invalid resolution")
            /\ UNCHANGED self
       ELSE LET stored == [self EXCEPT !.resolution = kwargs.resolution,
                                       !.device = kwargs.device]
                out == OutputPath(kwargs.output, kwargs.name, cwd, dirs,
                                  globalNames, START_TIME)
            IN  IF ~ Resolves("START_TIME", InitLocals, globalNames, START_TIME)
                THEN /\ Exit("NameError", "name 'START_TIME' is not defined")
                     /\ self' = stored
                ELSE IF ~ out.ok
                THEN /\ Exit(out.error,
                             IF out.error = "NameError"
                             THEN "name 'timestamp' is not defined"
                             ELSE "Output directory must already exist")
                     /\ self' = stored
                ELSE /\ self' = [stored EXCEPT
                                   !.constructed = TRUE,
                                   !.output_path = Abspath(out.path, cwd),
                                   !.count = kwargs.count,
                                   !.nowait = kwargs.nowait]
                     /\ pc' = "prepare_directories"
                     /\ UNCHANGED << exitCode, raised, message >>
    /\ UNCHANGED << absent, START_TIME, globalNames, reported, dirs, tmpdirs,
                    args, kwargs, no_shrink, i, cwd, workfiles, delivered,
                    calls, steps, done >>


\* (variant) process converts before it combines
NextStepConvertFirst(step, noShrink) ==
    CASE step = "prepare_directories" -> "scan_pages"
      [] step = "scan_pages" -> "convert_tiff_to_pdf"
      [] step = "convert_tiff_to_pdf" -> "combine_tiffs"
      [] step = "combine_tiffs" ->
            IF noShrink = FALSE THEN "shrink_pdf" ELSE "move"
      [] step = "shrink_pdf" -> "move"
      [] OTHER -> "exit"

\* lines 219-243: the step process runs after `step` has returned
NextStep(step, noShrink) ==
    CASE step = "prepare_directories" -> "scan_pages"
      [] step = "scan_pages" -> "combine_tiffs"
      [] step = "combine_tiffs" -> "convert_tiff_to_pdf"
      [] step = "convert_tiff_to_pdf" ->
            IF noShrink = FALSE THEN "shrink_pdf" ELSE "move"
      [] step = "shrink_pdf" -> "move"
      [] OTHER -> "exit"

\* lines 234-238: the file process moves
FinalFilename(noShrink) == IF noShrink = FALSE THEN CleanPdf ELSE OutputPdf

\* (variant) the prompt after every page, the last one included
NeedsPromptAfterLast(nowait, index, count) == ~ nowait /\ index < count

\* line 175: the prompt between two pages
NeedsPrompt(nowait, index, count) == ~ nowait /\ index < count - 1

\* every step prints prefix() first
PrefixFails == PrefixRaises(globalNames, START_TIME)

\* lines 221-222, 134-144: prepare_directories and cd(self.workdir)
PrepareDirectories ==
    /\ pc = "prepare_directories"
    /\ steps' = Append(steps, "prepare_directories")
    /\ IF PrefixFails
       THEN /\ Exit("NameError", "name 'START_TIME' is not defined")
            /\ UNCHANGED << dirs, tmpdirs, self, cwd, done >>
       ELSE LET workdir == Mkdtemp("", tmpdirs)
            IN  /\ tmpdirs' = Append(tmpdirs, workdir)
                /\ dirs' = dirs \cup {workdir}
                /\ self' = [self EXCEPT !.workdir = workdir]
                /\ cwd' = workdir
                /\ done' = Append(done, "prepare_directories")
                /\ pc' = NextStep("prepare_directories", no_shrink)
                /\ UNCHANGED << exitCode, raised, message >>
    /\ UNCHANGED << absent, START_TIME, globalNames, reported, args, kwargs,
                    no_shrink, i, workfiles, delivered, calls >>

\* lines 172-175, 150-170: one turn of the loop of scan_pages, _scan_page(i)
ScanPage ==
    /\ pc = "scan_pages"
    /\ Truthy(self.count)
    /\ i < self.count[1]
    /\ steps' = IF i = 0 THEN Append(steps, "scan_pages") ELSE steps
    /\ IF PrefixFails
       THEN /\ Exit("NameError", "name 'START_TIME' is not defined")
            /\ UNCHANGED << i, workfiles, calls, done >>
       ELSE \E result \in ScanimageOutcomes(ScanimageArgs(Some(i), self), calls) :
            LET a == ScanimageArgs(Some(i), self)
            IN  /\ calls' = Append(calls, [tool |-> "scanimage", argv |-> a,
                                           code |-> result.code])
                /\ workfiles' = ScanimageWrites(a, result.sheets, workfiles)
                /\ IF ToolRaises(result.code, a.ok_code)
                   THEN /\ Exit("ErrorReturnCode", "scanimage failed")
                        /\ UNCHANGED << i, done >>
                   ELSE IF NeedsPrompt(self.nowait, i, self.count[1])
                   THEN /\ pc' = "prompt"
                        /\ UNCHANGED << i, done, exitCode, raised, message >>
                   ELSE /\ i' = i + 1
                        /\ IF i + 1 < self.count[1]
                           THEN /\ pc' = "scan_pages"
                                /\ UNCHANGED done
                           ELSE /\ pc' = NextStep("scan_pages", no_shrink)
                                /\ done' = Append(done, "scan_pages")
                        /\ UNCHANGED << exitCode, raised, message >>
    /\ UNCHANGED << absent, START_TIME, globalNames, reported, dirs, tmpdirs,
                    args, kwargs, no_shrink, self, cwd, delivered >>

\* lines 176-182: input() between two pages, <ENTER> or <CTRL+C>
Prompt ==
    /\ pc = "prompt"
    /\ \E key \in {"ENTER", "CTRL+C"} :
          IF PrefixFails
          THEN /\ Exit("NameError", "name 'START_TIME' is not defined")
               /\ UNCHANGED << i, done >>
          ELSE IF key = "CTRL+C"
          THEN /\ Exit("SystemExit", "Aborting.")
               /\ UNCHANGED << i, done >>
          ELSE /\ i' = i + 1
               /\ IF i + 1 < self.count[1]
                  THEN /\ pc' = "scan_pages"
                       /\ UNCHANGED done
                  ELSE /\ pc' = NextStep("scan_pages", no_shrink)
                       /\ done' = Append(done, "scan_pages")
               /\ UNCHANGED << exitCode, raised, message >>
    /\ UNCHANGED << absent, START_TIME, globalNames, reported, dirs, tmpdirs,
                    args, kwargs, no_shrink, self, cwd, workfiles, delivered,
                    calls, steps >>

\* lines 172-173: range(self.count) is empty for a negative count
ScanNoPage ==
    /\ pc = "scan_pages"
    /\ Truthy(self.count)
    /\ ~ (i < self.count[1])
    /\ steps' = Append(steps, "scan_pages")
    /\ done' = Append(done, "scan_pages")
    /\ pc' = NextStep("scan_pages", no_shrink)
    /\ UNCHANGED << absent, START_TIME, globalNames, exitCode, raised,
                    reported, message, dirs, tmpdirs, args, kwargs, no_shrink,
                    self, i, cwd, workfiles, delivered, calls >>

\* lines 183-184, 150-170: _scan_page(None), one batch run of scanimage
ScanBatch ==
    /\ pc = "scan_pages"
    /\ ~ Truthy(self.count)
    /\ steps' = Append(steps, "scan_pages")
    /\ IF PrefixFails
       THEN /\ Exit("NameError", "name 'START_TIME' is not defined")
            /\ UNCHANGED << workfiles, calls, done >>
       ELSE \E result \in ScanimageOutcomes(ScanimageArgs(NoValue, self), calls) :
            LET a == ScanimageArgs(NoValue, self)
            IN  /\ calls' = Append(calls, [tool |-> "scanimage", argv |-> a,
                                           code |-> result.code])
                /\ workfiles' = ScanimageWrites(a, result.sheets, workfiles)
                /\ IF ToolRaises(result.code, a.ok_code)
                   THEN /\ Exit("ErrorReturnCode", "scanimage failed")
                        /\ UNCHANGED done
                   ELSE /\ pc' = NextStep("scan_pages", no_shrink)
                        /\ done' = Append(done, "scan_pages")
                        /\ UNCHANGED << exitCode, raised, message >>
    /\ UNCHANGED << absent, START_TIME, globalNames, reported, dirs, tmpdirs,
                    args, kwargs, no_shrink, self, i, cwd, delivered >>

\* lines 186-193: combine_tiffs
CombineTiffs ==
    /\ pc = "combine_tiffs"
    /\ steps' = Append(steps, "combine_tiffs")
    /\ IF PrefixFails
       THEN /\ Exit("NameError", "name 'START_TIME' is not defined")
            /\ UNCHANGED << workfiles, calls, done >>
       ELSE LET files == Sorted(Glob(workfiles))
            IN  \E code \in TiffcpOutcomes(files) :
                /\ calls' = Append(calls, [tool |-> "tiffcp", argv |-> files,
                                           code |-> code])
                /\ IF ToolRaises(code, DefaultOkCodes)
                   THEN /\ Exit("ErrorReturnCode", "tiffcp failed")
                        /\ UNCHANGED << workfiles, done >>
                   ELSE /\ workfiles' =
                              Put(workfiles, OutputTif, Concat(files, workfiles))
                        /\ done' = Append(done, "combine_tiffs")
                        /\ pc' = NextStep("combine_tiffs", no_shrink)
                        /\ UNCHANGED << exitCode, raised, message >>
    /\ UNCHANGED << absent, START_TIME, globalNames, reported, dirs, tmpdirs,
                    args, kwargs, no_shrink, self, i, cwd, delivered >>

\* lines 195-203: convert_tiff_to_pdf
ConvertTiffToPdf ==
    /\ pc = "convert_tiff_to_pdf"
    /\ steps' = Append(steps, "convert_tiff_to_pdf")
    /\ IF PrefixFails
       THEN /\ Exit("NameError", "name 'START_TIME' is not defined")
            /\ UNCHANGED << workfiles, calls, done >>
       ELSE \E code \in Tiff2pdfOutcomes(workfiles) :
                /\ calls' = Append(calls, [tool |-> "tiff2pdf",
                                           argv |-> << OutputTif, OutputPdf >>,
                                           code |-> code])
                /\ IF ToolRaises(code, DefaultOkCodes)
                   THEN /\ Exit("ErrorReturnCode", "tiff2pdf failed")
                        /\ UNCHANGED << workfiles, done >>
                   ELSE /\ workfiles' =
                              Put(workfiles, OutputPdf, workfiles[OutputTif])
                        /\ done' = Append(done, "convert_tiff_to_pdf")
                        /\ pc' = NextStep("convert_tiff_to_pdf", no_shrink)
                        /\ UNCHANGED << exitCode, raised, message >>
    /\ UNCHANGED << absent, START_TIME, globalNames, reported, dirs, tmpdirs,
                    args, kwargs, no_shrink, self, i, cwd, delivered >>

\* line 217: gs(*args). shrink_pdf has no local `args`; the name is the
\* module global the __main__ block bound to the docopt dictionary
GsArgv(globals, startTime) ==
    IF Resolves("args", ShrinkLocals, globals, startTime)
    THEN Some(DocoptKeys) ELSE NoValue

\* lines 205-217: shrink_pdf
ShrinkPdf ==
    /\ pc = "shrink_pdf"
    /\ steps' = Append(steps, "shrink_pdf")
    /\ IF PrefixFails \/ GsArgv(globalNames, START_TIME) = NoValue
       THEN /\ Exit("NameError", "name is not defined")
            /\ UNCHANGED << workfiles, calls, done >>
       ELSE LET argv == GsArgv(globalNames, START_TIME)[1]
            IN  \E code \in ToolOutcomes :
                /\ calls' = Append(calls, [tool |-> "gs", argv |-> argv,
                                           code |-> code])
                /\ IF ToolRaises(code, DefaultOkCodes)
                   THEN /\ Exit("ErrorReturnCode", "gs failed")
                        /\ UNCHANGED << workfiles, done >>
                   ELSE /\ workfiles' = GsWrites(argv, workfiles)
                        /\ done' = Append(done, "shrink_pdf")
                        /\ pc' = NextStep("shrink_pdf", no_shrink)
                        /\ UNCHANGED << exitCode, raised, message >>
    /\ UNCHANGED << absent, START_TIME, globalNames, reported, dirs, tmpdirs,
                    args, kwargs, no_shrink, self, i, cwd, delivered >>

\* lines 240-245: cd('..'), mv to self.output_path, and the end of process
MoveFile ==
    /\ pc = "move"
    /\ steps' = Append(steps, "move")
    /\ IF PrefixFails
       THEN /\ Exit("NameError", "name 'START_TIME' is not defined")
            /\ UNCHANGED << cwd, workfiles, delivered, calls, done >>
       ELSE LET filename == FinalFilename(no_shrink)
            IN  \E code \in MvOutcomes(filename, workfiles) :
                /\ cwd' = Dirname(cwd)
                /\ calls' = Append(calls, [tool |-> "mv",
                                           argv |-> << filename >>,
                                           code |-> code])
                /\ IF ToolRaises(code, DefaultOkCodes)
                   THEN /\ Exit("ErrorReturnCode", "mv failed")
                        /\ UNCHANGED << workfiles, delivered, done >>
                   ELSE /\ delivered' = Put(delivered, self.output_path,
                                            workfiles[filename])
                        /\ workfiles' = Remove(workfiles, filename)
                        /\ done' = Append(done, "move")
                        /\ pc' = NextStep("move", no_shrink)
                        /\ exitCode' = 0
                        /\ UNCHANGED << raised, message >>
    /\ UNCHANGED << absent, START_TIME, globalNames, reported, dirs, tmpdirs,
                    args, kwargs, no_shrink, self, i >>

Next ==
    \/ ImportGuards
    \/ Main
    \/ ScanInit
    \/ PrepareDirectories
    \/ ScanPage
    \/ Prompt
    \/ ScanNoPage
    \/ ScanBatch
    \/ CombineTiffs
    \/ ConvertTiffToPdf
    \/ ShrinkPdf
    \/ MoveFile

Spec == Init /\ [][Next]_vars


\* ------------------------------------------------------------- properties

ToolCalls(tool) == { k \in 1..Len(calls) : calls[k].tool = tool }

Scans == Cardinality(ToolCalls("scanimage"))

IsPrefix(a, b) == Len(a) <= Len(b) /\ SubSeq(b, 1, Len(a)) = a

Ascending(s) == \A a, b \in 1..Len(s) : a < b => s[a] < s[b]

\* the states of the spec's pipeline, as the steps that lead to Delivered
PipelineOrder(noShrink) ==
    IF noShrink = FALSE
    THEN << "prepare_directories", "scan_pages", "combine_tiffs",
            "convert_tiff_to_pdf", "shrink_pdf", "move" >>
    ELSE << "prepare_directories", "scan_pages", "combine_tiffs",
            "convert_tiff_to_pdf", "move" >>

C1_Ordered ==
    /\ IsPrefix(steps, PipelineOrder(no_shrink))
    /\ IsPrefix(done, steps)
    /\ Len(steps) <= Len(done) + 1
    /\ Len(steps) > Len(done) =>
          \/ pc = "exit" /\ exitCode = 1
          \/ pc \in {"scan_pages", "prompt"} /\ steps[Len(steps)] = "scan_pages"
    /\ delivered # EmptyDir => done = PipelineOrder(no_shrink)
    /\ (pc = "exit" /\ exitCode = 0) => done = PipelineOrder(no_shrink)

C1_Advance ==
    /\ pc # "exit"
    /\ steps' # steps =>
          /\ done = steps
          /\ Len(steps) < Len(PipelineOrder(no_shrink))
          /\ steps' = Append(steps, PipelineOrder(no_shrink)[Len(steps) + 1])

\* C1: process runs its steps in the fixed order prepare_directories,
\* scan_pages, combine_tiffs, convert_tiff_to_pdf, shrink_pdf (unless
\* no_shrink), move: a step starts only when every step before it has
\* returned, no step starts twice, nothing runs after a step has failed, and
\* the file is delivered only when every step has returned.
C1_FixedStepOrder == [] C1_Ordered /\ [][C1_Advance]_vars

\* C1 witness: a run that went through every step and delivered.
C1_Witness ==
    /\ pc = "exit"
    /\ exitCode = 0
    /\ no_shrink = TRUE
    /\ done = PipelineOrder(TRUE)
    /\ delivered # EmptyDir

\* C2: when every step up to the move has succeeded, the run ends with exit
\* code 0 and the file at output_path is the PDF of the last finishing step,
\* with as many pages as page files were scanned, with shrinking and without.
C2_DeliversFinishedPdf ==
    (pc = "exit" /\ steps # << >> /\ steps[Len(steps)] = "move") =>
        /\ exitCode = 0
        /\ self.output_path \in DOMAIN delivered
        /\ Len(delivered[self.output_path]) = PagesHeld(workfiles)

\* C3: in counted acquisition the page files, sorted ascending by name as
\* combine_tiffs sorts them, are in acquisition order.
C3_SortedIsAcquisitionOrder ==
    (pc = "combine_tiffs" /\ Truthy(self.count)) =>
        Ascending(Concat(Sorted(Glob(workfiles)), workfiles))

C5_NoDirectoryOnBadResolution ==
    (pc = "exit" /\ message = "Invalid resolution") =>
        /\ exitCode = 1
        /\ tmpdirs = << >>

\* C6: when the value given with -c is not a positive integer, no page is
\* ever scanned and the run ends with exit code 1.
C6_CountMustBePositive ==
    (/\ args.parsed
     /\ args.c # DefaultCountText
     /\ ~ (ParseInt(args.c).ok /\ ParseInt(args.c).val > 0)) =>
        /\ Scans = 0
        /\ pc = "exit" => exitCode = 1

\* C7: with a valid resolution, an output that is an existing directory and
\* no name, construction succeeds and output_path is a file in that
\* directory.
C7_TimestampFilename ==
    (/\ pc \notin {"import", "main", "construct"}
     /\ self.resolution # << >>
     /\ START_TIME # Unbound
     /\ Isdir(kwargs.output, Home, dirs)
     /\ kwargs.name = None) =>
        /\ self.constructed
        /\ Dirname(self.output_path) = Abspath(kwargs.output, Home)

\* C8 as stated: when tools are absent the run ends at the import guards with
\* exit code 1 and the error names every absent tool.
C8_EveryAbsentToolNamed ==
    (pc = "exit" /\ absent # {}) =>
        /\ exitCode = 1
        /\ tmpdirs = << >>
        /\ calls = << >>
        /\ absent \subseteq reported

\* C8 amended: when tools are absent the run ends at the import guards with
\* exit code 1, before the command line is parsed, before any directory is
\* created and before any tool is run, and the error names the first absent
\* tool in the order scanimage, tiffcp / tiff2pdf (named together), gs.
C8_FirstAbsentToolNamed ==
    absent # {} =>
        /\ pc \in {"import", "exit"}
        /\ ~ args.parsed
        /\ tmpdirs = << >>
        /\ dirs = ExistingDirs
        /\ calls = << >>
        /\ pc = "exit" =>
              /\ exitCode = 1
              /\ reported \cap absent # {}
              /\ "scanimage" \in absent => reported = {"scanimage"}
              /\ ("scanimage" \notin absent
                    /\ {"tiffcp", "tiff2pdf"} \cap absent # {}) =>
                        reported = {"tiffcp", "tiff2pdf"}
              /\ absent = {"gs"} => reported = {"gs"}

\* C8 witness: scanimage and gs are absent, the error names scanimage.
C8_Witness ==
    /\ pc = "exit"
    /\ absent = {"scanimage", "gs"}
    /\ reported = {"scanimage"}
    /\ exitCode = 1

\* C9: when scan_pages has returned, counted mode with count N has made
\* exactly N scanimage runs and the working directory holds exactly N page
\* files; batch mode has made exactly one run.
C9_OneFilePerInvocation ==
    pc = "combine_tiffs" =>
        IF Truthy(self.count) /\ self.count[1] >= 1
        THEN Scans = self.count[1] /\ PagesHeld(workfiles) = self.count[1]
        ELSE Truthy(self.count) \/ Scans = 1

\* C10: tiffcp given no page file fails, and whenever tiffcp fails the run
\* ends there with exit code 1: no output.tif, no conversion, no shrinking,
\* no move, nothing delivered.
C10_AssemblyFailureIsFatal ==
    \A k \in ToolCalls("tiffcp") :
        /\ calls[k].argv = << >> => calls[k].code # 0
        /\ calls[k].code # 0 =>
              /\ pc = "exit"
              /\ exitCode = 1
              /\ k = Len(calls)
              /\ steps[Len(steps)] = "combine_tiffs"
              /\ OutputTif \notin DOMAIN workfiles
              /\ OutputPdf \notin DOMAIN workfiles
              /\ delivered = EmptyDir

\* C10 witness: batch mode, empty feeder, the run ends at tiffcp.
C10_Witness ==
    /\ pc = "exit"
    /\ exitCode = 1
    /\ ~ Truthy(self.count)
    /\ Scans = 1
    /\ PagesHeld(workfiles) = 0
    /\ \E k \in ToolCalls("tiffcp") : calls[k].argv = << >>


====
